---- MODULE Spec2Model ----
(***************************************************************************)
(* The order / payment core of the e-commerce backend (src/cart): cart     *)
(* lines, orders and their items, deliveries, coupons and the local        *)
(* mirror of the payment processor's intents.  Every request handler is    *)
(* one atomic action: requests are handled one at a time, each write is    *)
(* committed when it is made (no ATOMIC_REQUESTS in settings.py).          *)
(***************************************************************************)
EXTENDS Integers, Sequences, FiniteSets, TLC

VARIABLES
    cart,        \* Cart rows: [user, product, quantity, price]
    orders,      \* Order rows: [id, user, status]
    orderItems,  \* OrderItem rows: [order, product, quantity, price]
    deliveries,  \* Delivery rows: [id, order, payment_status]
    payments,    \* Payment rows: [intent, status, order, delivery]
    coupons,     \* Coupon rows: [code, active, expiry_date, usage_limit, used_count]
    today,       \* timezone.now().date()
    webhookSecret, \* settings.STRIPE_WEBHOOK_SECRET is set
    productPrice,  \* Product.price of each product
    emailTasks,  \* number of send_order_email tasks enqueued
    applying,    \* per request in progress: the Coupon instance it has loaded
    tally,       \* history: used_count at the start, successful Apply calls
    last         \* the last request handled and its response

vars == <<cart, orders, orderItems, deliveries, payments,
          coupons, today, webhookSecret, productPrice, emailTasks,
          applying, tally, last>>

(***************************************************************************)
(* Bounds of the model.                                                    *)
(***************************************************************************)
NumUsers == 2
NumProducts == 2
MaxQty == 2
NegQty == 1
MaxPrice == 1
MaxCartRows == 2
MaxLineQty == 3
MaxItems == 2
MaxOrders == 1
NumProcs == 2

(***************************************************************************)
(* Values.                                                                 *)
(***************************************************************************)
Null == 0
Users == 1..NumUsers
Products == 1..NumProducts
NoPid == 0
UnknownPid == NumProducts + 1
ReqPids == NoPid..UnknownPid
ReqQtys == (0 - NegQty)..MaxQty
ReqPrices == 0..MaxPrice

None == [op |-> "None"]

\* requests that can be in progress at once (server workers)
Procs == 1..NumProcs

\* no request holds a Coupon instance
NoApply == [p \in Procs |-> [pc |-> "idle"]]

NoTally == [start |-> 0, successes |-> 0]

\* A PositiveIntegerField carries the column check "value >= 0".
PositiveIntegerField(v) == v >= 0

\* Product.objects.get(product_id=...) finds a row
ProductExists(pid) == pid \in Products

\* Product.price = models.IntegerField(default=0)
DefaultPrices == [p \in Products |-> 0]

(***************************************************************************)
(* Cart Manager (src/cart/views.py, CartView).  A Cart row is known by its *)
(* (user, product) pair, which unique_together keeps unique; the model     *)
(* leaves the row's opaque primary key out and lets a request refer to a   *)
(* row by that pair.                                                       *)
(***************************************************************************)
CartLines(u, p) == {c \in cart : c.user = u /\ c.product = p}

UserCart(u) == {c \in cart : c.user = u}

Respond(r) == last' = r

\* History: the quantity of the request handled just before, when that request
\* was a CartView.post that created the line of (u, pid); NoPrior otherwise.
NoPrior == 0 - 1
PriorAdd(u, pid) ==
    IF last.op = "CartPost" /\ last.resp = 201 /\ last.created
       /\ last.user = u /\ last.pid = pid
    THEN last.qty ELSE NoPrior

AddedQuantity_overwrite(old, q) == q

\* cart_item.quantity += quantity
AddedQuantity(old, q) == old + q

\* CartView.post: add a product to the cart of the authenticated user
CartPost(u, pid, q, pr) ==
    LET r == [op |-> "CartPost", user |-> u, pid |-> pid, qty |-> q,
              prior |-> PriorAdd(u, pid)]
    IN  IF pid = NoPid
        THEN UNCHANGED cart /\ Respond(r @@ [resp |-> 400, created |-> FALSE])
        ELSE IF ~ProductExists(pid)
        THEN UNCHANGED cart /\ Respond(r @@ [resp |-> 404, created |-> FALSE])
        ELSE IF CartLines(u, pid) = {}
        THEN \* get_or_create creates the line
             IF PositiveIntegerField(q) /\ PositiveIntegerField(pr)
             THEN /\ Cardinality(cart) < MaxCartRows
                  /\ cart' = cart \cup {[user |-> u, product |-> pid,
                                          quantity |-> q, price |-> pr]}
                  /\ Respond(r @@ [resp |-> 201, created |-> TRUE])
             ELSE UNCHANGED cart /\ Respond(r @@ [resp |-> 500, created |-> FALSE])
        ELSE LET c == CHOOSE c \in CartLines(u, pid) : TRUE
                 n == AddedQuantity(c.quantity, q)
             IN  IF PositiveIntegerField(n)
                 THEN /\ n <= MaxLineQty
                      /\ cart' = (cart \ {c}) \cup {[c EXCEPT !.quantity = n]}
                      /\ Respond(r @@ [resp |-> 201, created |-> FALSE])
                 ELSE UNCHANGED cart /\ Respond(r @@ [resp |-> 500, created |-> FALSE])

\* CartView.patch: set the quantity of a cart line
CartPatch(u, pid, q) ==
    LET r == [op |-> "CartPatch"]
    IN  IF pid = NoPid
        THEN UNCHANGED cart /\ Respond(r @@ [resp |-> 400])
        ELSE IF ~ProductExists(pid) \/ CartLines(u, pid) = {}
        THEN UNCHANGED cart /\ Respond(r @@ [resp |-> 404])
        ELSE IF q < 1
        THEN UNCHANGED cart /\ Respond(r @@ [resp |-> 400])
        ELSE LET c == CHOOSE c \in CartLines(u, pid) : TRUE
             IN  /\ cart' = (cart \ {c}) \cup {[c EXCEPT !.quantity = q]}
                 /\ Respond(r @@ [resp |-> 200])

\* CartView.delete: remove a product from the cart
CartDelete(u, pid) ==
    LET r == [op |-> "CartDelete"]
    IN  IF pid = NoPid
        THEN UNCHANGED cart /\ Respond(r @@ [resp |-> 400])
        ELSE IF ~ProductExists(pid) \/ CartLines(u, pid) = {}
        THEN UNCHANGED cart /\ Respond(r @@ [resp |-> 404])
        ELSE /\ cart' = cart \ CartLines(u, pid)
             /\ Respond(r @@ [resp |-> 200])

rest_cart == <<orders, orderItems, deliveries, payments, coupons, today, webhookSecret,
              productPrice, emailTasks, applying, tally>>

Init ==
    /\ cart = {}
    /\ orders = {}
    /\ orderItems = {}
    /\ deliveries = {}
    /\ payments = {}
    /\ coupons = {}
    /\ today = 0
    /\ webhookSecret = TRUE
    /\ productPrice = DefaultPrices
    /\ emailTasks = 0
    /\ applying = NoApply
    /\ tally = NoTally
    /\ last = None

DoCartPost ==
    \E u \in Users, pid \in ReqPids, q \in ReqQtys, pr \in ReqPrices :
        CartPost(u, pid, q, pr) /\ UNCHANGED rest_cart

DoCartPatch ==
    \E u \in Users, pid \in ReqPids, q \in ReqQtys :
        CartPatch(u, pid, q) /\ UNCHANGED rest_cart

DoCartDelete ==
    \E u \in Users, pid \in ReqPids :
        CartDelete(u, pid) /\ UNCHANGED rest_cart

NextCart == DoCartPost \/ DoCartPatch \/ DoCartDelete

SpecCart == Init /\ [][NextCart]_vars

(***************************************************************************)
(* C1: two successive Cart Add calls of one user for one existing product, *)
(* with quantities q1 and q2, leave exactly one cart line for (user,       *)
(* product), and its quantity is q1 + q2.  (The first call creates the     *)
(* line; both calls are answered 201.)                                     *)
(***************************************************************************)
C1_TwoAdds ==
    /\ last.op = "CartPost"
    /\ last.resp = 201
    /\ last.prior # NoPrior

C1_AddTwiceSums ==
    C1_TwoAdds =>
        /\ Cardinality(CartLines(last.user, last.pid)) = 1
        /\ \A c \in CartLines(last.user, last.pid) :
               c.quantity = last.prior + last.qty

C1_Witness ==
    /\ C1_TwoAdds
    /\ last.prior >= 1
    /\ last.qty >= 1
    /\ \E c \in CartLines(last.user, last.pid) : c.quantity = last.prior + last.qty
    /\ Cardinality(cart) > 1

(***************************************************************************)
(* Checkout Orchestrator (src/cart/views.py CheckoutAPIView, OrderAPIView; *)
(* src/cart/serializers.py OrderSerializer.create).  Order and Delivery    *)
(* rows are never deleted once a request has ended, so the fresh key of a  *)
(* new row is the table's size plus one.                                   *)
(***************************************************************************)
STATUS_CHOICES == {"Pending", "Dispatched", "Cancelled", "Cleared"}

DefaultPrice == 0

Items == [pid : Products \cup {UnknownPid}, qty : 1..MaxQty]

ItemLists == UNION {[1..n -> Items] : n \in 0..MaxItems}

\* the product ids of a request's item list that resolve to no Product
Unresolved(items) == {items[i].pid : i \in {j \in DOMAIN items : ~ProductExists(items[j].pid)}}

NewOrderId == Cardinality(orders) + 1

NewDeliveryId == Cardinality(deliveries) + 1

\* OrderItem.objects.create(product=, quantity=, order=): price is not passed
NewOrderItem(o, p, q) ==
    [order |-> o, product |-> p, quantity |-> q, price |-> DefaultPrice]

\* the insert passes the quantity check and unique_together (order, product, price)
OrderItemInsertOK(row, rows) ==
    /\ PositiveIntegerField(row.quantity)
    /\ ~\E x \in rows : /\ x.order = row.order
                        /\ x.product = row.product
                        /\ x.price = row.price

OrderDelete_none(o, db) == db

\* order.delete(): the order and, by on_delete=CASCADE, what hangs on it
OrderDelete(o, db) ==
    LET dels == {d \in db.deliveries : d.order = o}
    IN  [orders |-> {x \in db.orders : x.id # o},
         orderItems |-> {x \in db.orderItems : x.order # o},
         deliveries |-> db.deliveries \ dels,
         payments |-> {x \in db.payments :
                          x.order # o /\ x.delivery \notin {d.id : d \in dels}}]

\* the loop of CheckoutAPIView.post over the request's items, from item k on
RECURSIVE CheckoutItems(_, _, _, _)
CheckoutItems(o, items, k, rows) ==
    IF k > Len(items)
    THEN [outcome |-> "ok", rows |-> rows, named |-> NoPid]
    ELSE IF ~ProductExists(items[k].pid)
    THEN [outcome |-> "DoesNotExist", rows |-> rows, named |-> items[k].pid]
    ELSE LET row == NewOrderItem(o, items[k].pid, items[k].qty)
         IN  IF OrderItemInsertOK(row, rows)
             THEN CheckoutItems(o, items, k + 1, rows \cup {row})
             ELSE [outcome |-> "IntegrityError", rows |-> rows, named |-> NoPid]

\* DeliverySerializer.is_valid: phone_number and shipping_address are required
DeliveryForms == [phone : BOOLEAN, address : BOOLEAN]

DeliveryValid(form) == form.phone /\ form.address

SetTables(db) ==
    /\ orders' = db.orders
    /\ orderItems' = db.orderItems
    /\ deliveries' = db.deliveries
    /\ payments' = db.payments

ClearCart_all(u) == {}

\* if user: Cart.objects.filter(user=user).delete()
ClearCart(u) == IF u # Null THEN cart \ UserCart(u) ELSE cart

\* CheckoutAPIView.post: order, items and delivery in one request
Checkout(u, items, form) ==
    LET r == [op |-> "Checkout", user |-> u, items |-> items]
    IN  IF items = <<>>
        THEN /\ UNCHANGED <<cart, orders, orderItems, deliveries, payments>>
             /\ Respond(r @@ [resp |-> 400, named |-> NoPid, order |-> Null, cleared |-> 0])
        ELSE
          /\ Cardinality(orders) < MaxOrders
          /\ LET o == NewOrderId
                 loop == CheckoutItems(o, items, 1, orderItems)
                 db == [orders |-> orders \cup {[id |-> o, user |-> u, status |-> "Placed"]},
                        orderItems |-> loop.rows,
                        deliveries |-> deliveries,
                        payments |-> payments]
             IN  IF loop.outcome # "ok" \/ ~DeliveryValid(form)
                 THEN /\ SetTables(OrderDelete(o, db))
                      /\ UNCHANGED cart
                      /\ Respond(r @@ [resp |-> 400, named |-> loop.named, order |-> o,
                                       cleared |-> 0])
                 ELSE /\ SetTables([db EXCEPT !.deliveries = @ \cup
                             {[id |-> NewDeliveryId, order |-> o,
                               payment_status |-> "Pending"]}])
                      /\ cart' = ClearCart(u)
                      /\ Respond(r @@ [resp |-> 201, named |-> NoPid, order |-> o,
                                       cleared |-> Cardinality(cart \ ClearCart(u))])

\* OrderSerializer.create, "if carts": each cart line is deleted, then copied
RECURSIVE ConvertCarts(_, _, _, _, _)
ConvertCarts(o, lines, k, crt, rows) ==
    IF k > Len(lines)
    THEN [outcome |-> "ok", cart |-> crt, rows |-> rows]
    ELSE LET row == NewOrderItem(o, lines[k].product, lines[k].quantity)
             left == crt \ {lines[k]}
         IN  IF OrderItemInsertOK(row, rows)
             THEN ConvertCarts(o, lines, k + 1, left, rows \cup {row})
             ELSE [outcome |-> "IntegrityError", cart |-> left, rows |-> rows]

\* OrderSerializer.create, "elif items": unknown products are skipped
RECURSIVE DirectItems(_, _, _, _)
DirectItems(o, items, k, rows) ==
    IF k > Len(items)
    THEN [outcome |-> "ok", rows |-> rows]
    ELSE IF ~ProductExists(items[k].pid)
    THEN DirectItems(o, items, k + 1, rows)
    ELSE LET row == NewOrderItem(o, items[k].pid, items[k].qty)
         IN  IF OrderItemInsertOK(row, rows)
             THEN DirectItems(o, items, k + 1, rows \cup {row})
             ELSE [outcome |-> "IntegrityError", rows |-> rows]

CartRefs == [user : Users, product : Products]

CartRefLists == UNION {[1..n -> CartRefs] : n \in 0..MaxItems}

\* OrderAPIView.post: u is the requester (Null: not authenticated), bodyUser and
\* st the "user" and "status" fields of the body, carts the referenced cart
\* lines, items the direct item list
OrderPost(u, bodyUser, st, carts, items) ==
    LET r == [op |-> "OrderPost", user |-> u, items |-> items]
        owner == IF u # Null THEN u ELSE bodyUser
        dangling == \E i \in DOMAIN carts : CartLines(carts[i].user, carts[i].product) = {}
    IN  IF (items = <<>> /\ carts = <<>>) \/ dangling
        THEN /\ UNCHANGED <<cart, orders, orderItems, deliveries, payments>>
             /\ Respond(r @@ [resp |-> 400, order |-> Null, lines |-> {}, path |-> "none"])
        ELSE
          /\ Cardinality(orders) < MaxOrders
          /\ UNCHANGED <<deliveries, payments>>
          /\ LET o == NewOrderId
                 lines == [i \in DOMAIN carts |->
                             CHOOSE c \in CartLines(carts[i].user, carts[i].product) : TRUE]
             IN  /\ orders' = orders \cup {[id |-> o, user |-> owner, status |-> st]}
                 /\ IF carts # <<>>
                    THEN LET loop == ConvertCarts(o, lines, 1, cart, orderItems)
                         IN  /\ cart' = loop.cart
                             /\ orderItems' = loop.rows
                             /\ Respond(r @@ [resp |-> IF loop.outcome = "ok" THEN 201 ELSE 500,
                                              order |-> o, path |-> "carts",
                                              lines |-> {lines[i] : i \in DOMAIN lines}])
                    ELSE LET loop == DirectItems(o, items, 1, orderItems)
                         IN  /\ UNCHANGED cart
                             /\ orderItems' = loop.rows
                             /\ Respond(r @@ [resp |-> IF loop.outcome = "ok" THEN 201 ELSE 500,
                                              order |-> o, path |-> "items", lines |-> {}])

rest_order == <<coupons, today, webhookSecret, productPrice, emailTasks, applying, tally>>

\* the carts the Cart Manager can have left behind
CartRows == [user : Users, product : Products, quantity : 1..MaxQty, price : 1..MaxPrice]

InitCarts ==
    {c \in SUBSET CartRows :
        /\ Cardinality(c) <= MaxCartRows
        /\ \A x, y \in c : (x.user = y.user /\ x.product = y.product) => x = y}

InitOrder ==
    /\ cart \in InitCarts
    /\ orders = {}
    /\ orderItems = {}
    /\ deliveries = {}
    /\ payments = {}
    /\ coupons = {}
    /\ today = 0
    /\ webhookSecret = TRUE
    /\ productPrice = DefaultPrices
    /\ emailTasks = 0
    /\ applying = NoApply
    /\ tally = NoTally
    /\ last = None

DoCheckout ==
    \E u \in Users \cup {Null}, items \in ItemLists, form \in DeliveryForms :
        Checkout(u, items, form) /\ UNCHANGED rest_order

\* The body carries no "status" here (the field's default applies).
\* The body's "user" is overwritten for an authenticated requester, and its
\* items are not read when it names carts: one value stands for all there.
DoOrderPost ==
    \E u \in Users \cup {Null}, st \in {"Pending"}, carts \in CartRefLists :
      \E bodyUser \in (IF u = Null THEN Users \cup {Null} ELSE {Null}),
         items \in (IF carts = <<>> THEN ItemLists ELSE {<<>>, <<[pid |-> 1, qty |-> 1]>>}) :
        OrderPost(u, bodyUser, st, carts, items) /\ UNCHANGED rest_order

NextOrder == DoCheckout \/ DoOrderPost

SpecOrder == InitOrder /\ [][NextOrder]_vars

(***************************************************************************)
(* Helpers of the claims about order creation.                             *)
(***************************************************************************)
OrderExists(o) == \E x \in orders : x.id = o

ItemsOf(o) == {x \in orderItems : x.order = o}

\* the last request created an order from a direct item list (Path B)
PathB ==
    \/ last.op = "Checkout" /\ last.items # <<>>
    \/ last.op = "OrderPost" /\ last.path = "items"

\* the first position of the list that holds an unresolvable product id
FirstUnresolved(items) ==
    CHOOSE k \in DOMAIN items :
        /\ ~ProductExists(items[k].pid)
        /\ \A j \in 1..(k - 1) : ProductExists(items[j].pid)

\* two of the items before position k name the same product
DuplicateBefore(items, k) ==
    \E i, j \in 1..(k - 1) : i < j /\ items[i].pid = items[j].pid

C6_Success ==
    /\ last.op = "Checkout"
    /\ last.resp = 201
    /\ last.user # Null

C6_CheckoutFillsOrderClearsCart ==
    [][C6_Success' =>
        LET o == last'.order
            U == last'.user
            listed == last'.items
            its == {x \in orderItems' : x.order = o}
        IN  /\ \E x \in orders' : x.id = o
            /\ ~OrderExists(o)
            /\ Cardinality(its) = Len(listed)
            /\ \A i \in DOMAIN listed :
                  \E x \in its : x.product = listed[i].pid /\ x.quantity = listed[i].qty
            /\ {c \in cart' : c.user = U} = {}
            /\ \A v \in Users \ {U} : {c \in cart' : c.user = v} = UserCart(v)]_vars

\* U had two cart lines, another user has one, and the order lists two products
C6_Witness ==
    /\ C6_Success
    /\ Len(last.items) = 2
    /\ Cardinality(ItemsOf(last.order)) = 2
    /\ last.cleared >= 1
    /\ UserCart(last.user) = {}
    /\ \E v \in Users \ {last.user} : UserCart(v) # {}

(***************************************************************************)
(* C10 as stated: after a successful order creation from cart-line         *)
(* references (Path A), every referenced cart line has an OrderItem of the *)
(* new Order with the same product, quantity and unit price, and the cart  *)
(* line no longer exists.  The price is not copied.                        *)
(***************************************************************************)
C10_PathACopiesLines ==
    (last.op = "OrderPost" /\ last.path = "carts" /\ last.resp = 201) =>
        \A l \in last.lines :
            /\ \E x \in ItemsOf(last.order) :
                  /\ x.product = l.product
                  /\ x.quantity = l.quantity
                  /\ x.price = l.price
            /\ l \notin cart

(***************************************************************************)
(* Payment Gateway Adapter (src/cart/stripe_views.py).  The processor is   *)
(* outside the program: the status it reports for an intent and the events *)
(* it delivers are inputs.  An intent created through CreateIntent gets    *)
(* the next number; ForeignIntent is an intent of the processor account    *)
(* that has no local Payment row.                                          *)
(***************************************************************************)
MaxPayments == 2

ForeignIntent == 0

IntentIds == ForeignIntent..MaxPayments

PAYMENT_STATUS_CHOICES == {"pending", "succeeded", "failed", "cancelled"}

\* PaymentIntent.status values of the processor
IntentStatuses ==
    {"succeeded", "processing", "requires_payment_method", "canceled", "requires_action"}

EventTypes ==
    {"payment_intent.succeeded", "payment_intent.payment_failed",
     "charge.dispute.created", "customer.created"}

Tables == [orders |-> orders, orderItems |-> orderItems,
           deliveries |-> deliveries, payments |-> payments]

PaymentsOf(db, i) == {x \in db.payments : x.intent = i}

OrderIds == {x.id : x \in orders}

DeliveryIds == {x.id : x \in deliveries}

\* order.status = st; order.save()
SetOrderStatus(db, o, st) ==
    [db EXCEPT !.orders = {IF x.id = o THEN [x EXCEPT !.status = st] ELSE x : x \in @}]

\* delivery.payment_status = st; delivery.save()
SetDeliveryStatus(db, d, st) ==
    [db EXCEPT !.deliveries =
        {IF x.id = d THEN [x EXCEPT !.payment_status = st] ELSE x : x \in @}]

\* payment.status = st; payment.save()
SetPaymentStatus(db, i, st) ==
    [db EXCEPT !.payments = {IF x.intent = i THEN [x EXCEPT !.status = st] ELSE x : x \in @}]

PaidOrderStatus_advance(old) == IF old = "Cleared" THEN "Dispatched" ELSE "Cleared"

\* payment.order.status = 'Cleared'
PaidOrderStatus(old) == "Cleared"

StatusOfOrder(db, o) == (CHOOSE x \in db.orders : x.id = o).status

CascadeSucceeded_orderOnly(db, p) ==
    IF p.order # Null
    THEN SetOrderStatus(db, p.order, PaidOrderStatus(StatusOfOrder(db, p.order)))
    ELSE db

\* "Update linked order status" and "Update delivery payment status"
CascadeSucceeded(db, p) ==
    LET d1 == IF p.order # Null
              THEN SetOrderStatus(db, p.order, PaidOrderStatus(StatusOfOrder(db, p.order)))
              ELSE db
    IN  IF p.delivery # Null
        THEN SetDeliveryStatus(d1, p.delivery, "Completed")
        ELSE d1

ConfirmStatus_processingFails(cur, pstatus) ==
    CASE pstatus = "succeeded" -> "succeeded"
      [] pstatus = "processing" -> "failed"
      [] pstatus = "requires_payment_method" -> "failed"
      [] pstatus = "canceled" -> "cancelled"
      [] OTHER -> cur

\* the if / elif chain of ConfirmPaymentView.post on intent.status
ConfirmStatus(cur, pstatus) ==
    CASE pstatus = "succeeded" -> "succeeded"
      [] pstatus = "processing" -> "pending"
      [] pstatus = "requires_payment_method" -> "failed"
      [] pstatus = "canceled" -> "cancelled"
      [] OTHER -> cur

\* intent.client_secret: the processor derives it from the intent id
ClientSecret(i) == <<i, "secret">>

NewPayment_succeeded(i) ==
    [intent |-> i, secret |-> ClientSecret(i), status |-> "succeeded",
     order |-> Null, delivery |-> Null]

\* Payment.objects.create(stripe_payment_intent_id=intent.id,
\*     stripe_client_secret=intent.client_secret, status='pending', ...)
NewPayment(i) ==
    [intent |-> i, secret |-> ClientSecret(i), status |-> "pending",
     order |-> Null, delivery |-> Null]

OneToOneClash_never(o, d) == FALSE

\* the OneToOneFields Payment.order and Payment.delivery are unique: another
\* Payment already has the order o or the delivery d
OneToOneClash(o, d) ==
    \E x \in payments : \/ (o # Null /\ x.order = o)
                         \/ (d # Null /\ x.delivery = d)

\* CreatePaymentIntentView.post.  valid: the body passes the serializer;
\* created: the processor creates the intent (otherwise it raises an error);
\* oid, did: order_id and delivery_id of the body (Null: not given)
CreateIntent(valid, created, oid, did) ==
    LET r == [op |-> "CreateIntent", oid |-> oid, did |-> did,
              valid |-> valid, created |-> created]
        i == Cardinality(payments) + 1
        row == NewPayment(i)
        o == IF oid \in OrderIds THEN oid ELSE Null
        d == IF did \in DeliveryIds THEN did ELSE Null
        linked == [row EXCEPT !.order = o, !.delivery = d]
        clash == OneToOneClash(o, d)
    IN  /\ UNCHANGED <<cart, orders, orderItems, deliveries>>
        /\ IF ~valid
           THEN UNCHANGED payments /\ Respond(r @@ [resp |-> 400, intent |-> Null])
           ELSE /\ Cardinality(payments) < MaxPayments
                /\ IF ~created
                   THEN UNCHANGED payments /\ Respond(r @@ [resp |-> 500, intent |-> Null])
                   ELSE IF clash
                   THEN \* payment.save() fails after Payment.objects.create stored the row
                        /\ payments' = payments \cup {row}
                        /\ Respond(r @@ [resp |-> 500, intent |-> i])
                   ELSE /\ payments' = payments \cup {linked}
                        /\ Respond(r @@ [resp |-> 201, intent |-> i])

\* History: the request handled just before was a ConfirmIntent of the same
\* intent to which the processor reported "succeeded" and that answered 200.
AfterSucceededConfirm(i) ==
    /\ last.op = "Confirm"
    /\ last.intent = i
    /\ last.pstatus = "succeeded"
    /\ last.resp = 200

\* the processor knows the intent (PaymentIntent.retrieve does not raise)
IntentKnown(i) == i = ForeignIntent \/ i <= Cardinality(payments)

\* ConfirmPaymentView.post.  valid: the body passes the serializer;
\* pstatus: the status the processor reports for the intent
ConfirmIntent(valid, i, pstatus) ==
    LET r == [op |-> "Confirm", intent |-> i, pstatus |-> pstatus,
              again |-> AfterSucceededConfirm(i), valid |-> valid]
    IN  /\ UNCHANGED <<cart, orderItems>>
        /\ IF ~valid \/ ~IntentKnown(i)
           THEN UNCHANGED <<orders, deliveries, payments>> /\ Respond(r @@ [resp |-> 400])
           ELSE IF PaymentsOf(Tables, i) = {}
           THEN UNCHANGED <<orders, deliveries, payments>> /\ Respond(r @@ [resp |-> 404])
           ELSE LET p == CHOOSE x \in payments : x.intent = i
                    d1 == IF pstatus = "succeeded" THEN CascadeSucceeded(Tables, p) ELSE Tables
                    d2 == SetPaymentStatus(d1, i, ConfirmStatus(p.status, pstatus))
                IN  /\ orders' = d2.orders
                    /\ deliveries' = d2.deliveries
                    /\ payments' = d2.payments
                    /\ Respond(r @@ [resp |-> 200])

HandlePaymentFailed_upsert(db, i) ==
    IF PaymentsOf(db, i) = {}
    THEN [db EXCEPT !.payments = @ \cup
            {[intent |-> i, secret |-> <<>>, status |-> "failed",
              order |-> Null, delivery |-> Null]}]
    ELSE SetPaymentStatus(db, i, "failed")

HandlePaymentFailed_noCascade(db, i) ==
    IF PaymentsOf(db, i) = {} THEN db ELSE SetPaymentStatus(db, i, "failed")

\* _handle_payment_failed
HandlePaymentFailed(db, i) ==
    IF PaymentsOf(db, i) = {}
    THEN db
    ELSE LET p == CHOOSE x \in db.payments : x.intent = i
             d1 == SetPaymentStatus(db, i, "failed")
         IN  IF p.order # Null THEN SetOrderStatus(d1, p.order, "Cancelled") ELSE d1

\* _handle_payment_succeeded.  charges: the event's intent object has the key
\* 'charges' (without it line 263 raises KeyError before payment.save())
HandlePaymentSucceeded(db, i, charges) ==
    IF PaymentsOf(db, i) = {} \/ ~charges
    THEN db
    ELSE LET p == CHOOSE x \in db.payments : x.intent = i
         IN  CascadeSucceeded(SetPaymentStatus(db, i, "succeeded"), p)

\* the dispatch of stripe_webhook on event['type'] for a verified event
HandleEvent(db, type, i, charges) ==
    CASE type = "payment_intent.succeeded" -> HandlePaymentSucceeded(db, i, charges)
      [] type = "payment_intent.payment_failed" -> HandlePaymentFailed(db, i)
      [] OTHER -> db

Unconfigured_handled(db, handled) == handled

\* "if not webhook_secret": the view returns before any handler runs
Unconfigured(db, handled) == db

\* stripe_webhook.  signed: the payload and its signature verify
Webhook(signed, type, i, charges) ==
    LET r == [op |-> "Webhook", type |-> type, intent |-> i, signed |-> signed,
              secret |-> webhookSecret, charges |-> charges]
        handled == HandleEvent(Tables, type, i, charges)
        db == IF ~webhookSecret THEN Unconfigured(Tables, handled)
              ELSE IF ~signed THEN Tables
              ELSE handled
    IN  /\ UNCHANGED <<cart, orderItems>>
        /\ orders' = db.orders
        /\ deliveries' = db.deliveries
        /\ payments' = db.payments
        /\ Respond(r @@ [resp |-> IF webhookSecret /\ ~signed THEN 400 ELSE 200])

\* the orders the Checkout Orchestrator can have left behind: created by
\* OrderAPIView.post (Pending, no delivery) or by checkout (Placed, delivery)
InitPayOrders ==
    {[n \in 1..k |-> pl[n]] : k \in 0..MaxOrders, pl \in [1..MaxOrders -> BOOLEAN]}

InitPay ==
    /\ cart = {}
    /\ orderItems = {}
    /\ \E f \in InitPayOrders :
         /\ orders = {[id |-> n, user |-> Null,
                       status |-> IF f[n] THEN "Placed" ELSE "Pending"] : n \in DOMAIN f}
         /\ deliveries = {[id |-> n, order |-> n, payment_status |-> "Pending"] :
                             n \in {m \in DOMAIN f : f[m]}}
    /\ payments = {}
    /\ coupons = {}
    /\ today = 0
    /\ webhookSecret \in BOOLEAN
    /\ productPrice = DefaultPrices
    /\ emailTasks = 0
    /\ applying = NoApply
    /\ tally = NoTally
    /\ last = None

rest_pay == <<coupons, today, webhookSecret, productPrice, emailTasks, applying, tally>>

DoCreateIntent ==
    \E valid, created \in BOOLEAN, oid, did \in Null..(MaxOrders + 1) :
        CreateIntent(valid, created, oid, did) /\ UNCHANGED rest_pay

DoConfirmIntent ==
    \E valid \in BOOLEAN, i \in IntentIds, pstatus \in IntentStatuses :
        ConfirmIntent(valid, i, pstatus) /\ UNCHANGED rest_pay

DoWebhook ==
    \E signed, charges \in BOOLEAN, type \in EventTypes, i \in IntentIds :
        Webhook(signed, type, i, charges) /\ UNCHANGED rest_pay

NextPay == DoCreateIntent \/ DoConfirmIntent \/ DoWebhook

SpecPay == InitPay /\ [][NextPay]_vars

(***************************************************************************)
(* Helpers of the claims about payment reconciliation.                     *)
(***************************************************************************)
PaymentOf(i) == CHOOSE x \in payments : x.intent = i

OrderStatus(o) == (CHOOSE x \in orders : x.id = o).status

DeliveryStatus(d) == (CHOOSE x \in deliveries : x.id = d).payment_status

TerminalStatuses == {"succeeded", "failed", "cancelled"}

(***************************************************************************)
(* C3: ConfirmIntent is idempotent for a succeeded intent: a second        *)
(* ConfirmIntent for the same intent, right after a first one whose        *)
(* processor status was 'succeeded', leaves Payment.status, the linked     *)
(* Order.status and the linked Delivery.payment_status as the first call   *)
(* left them.                                                              *)
(***************************************************************************)
C3_SecondConfirm ==
    /\ last.op = "Confirm"
    /\ last.again
    /\ last.pstatus = "succeeded"
    /\ last.resp = 200

C3_ConfirmIdempotent ==
    [][C3_SecondConfirm' =>
        /\ payments' = payments
        /\ orders' = orders
        /\ deliveries' = deliveries]_vars

C3_Witness ==
    /\ C3_SecondConfirm
    /\ PaymentOf(last.intent).status = "succeeded"
    /\ PaymentOf(last.intent).order # Null
    /\ PaymentOf(last.intent).delivery # Null
    /\ OrderStatus(PaymentOf(last.intent).order) = "Cleared"
    /\ DeliveryStatus(PaymentOf(last.intent).delivery) = "Completed"

(***************************************************************************)
(* C4: after a ConfirmIntent for an intent with a local Payment row to     *)
(* which the processor reports 'succeeded', Payment.status is 'succeeded', *)
(* the linked Order (if any) is 'Cleared' and the linked Delivery (if any) *)
(* has payment_status 'Completed'.                                         *)
(***************************************************************************)
C4_Confirmed ==
    /\ last.op = "Confirm"
    /\ last.pstatus = "succeeded"
    /\ last.resp = 200

C4_ConfirmSucceededCascades ==
    C4_Confirmed =>
        /\ PaymentsOf(Tables, last.intent) # {}
        /\ \A p \in PaymentsOf(Tables, last.intent) :
              /\ p.status = "succeeded"
              /\ p.order # Null => OrderStatus(p.order) = "Cleared"
              /\ p.delivery # Null => DeliveryStatus(p.delivery) = "Completed"

C4_Witness ==
    /\ C4_Confirmed
    /\ ~last.again
    /\ PaymentOf(last.intent).order # Null
    /\ PaymentOf(last.intent).delivery # Null
    /\ OrderStatus(PaymentOf(last.intent).order) = "Cleared"
    /\ DeliveryStatus(PaymentOf(last.intent).delivery) = "Completed"
    /\ Cardinality(payments) = 2

(***************************************************************************)
(* C7: a validly signed webhook event payment_intent.payment_failed or     *)
(* payment_intent.succeeded whose intent has no local Payment row changes  *)
(* no Payment, Order or Delivery, and is answered 200.                     *)
(***************************************************************************)
C7_SignedEvent ==
    /\ last.op = "Webhook"
    /\ last.secret
    /\ last.signed
    /\ last.type \in {"payment_intent.payment_failed", "payment_intent.succeeded"}

C7_UnmatchedEventIgnored ==
    [][(C7_SignedEvent' /\ PaymentsOf(Tables, last'.intent) = {}) =>
        /\ payments' = payments
        /\ orders' = orders
        /\ deliveries' = deliveries
        /\ last'.resp = 200]_vars

C7_Witness ==
    /\ C7_SignedEvent
    /\ last.type = "payment_intent.payment_failed"
    /\ last.resp = 200
    /\ PaymentsOf(Tables, last.intent) = {}
    /\ \E p \in payments : p.status = "pending" /\ p.order # Null

(***************************************************************************)
(* C8 as stated: succeeded, failed and cancelled are terminal: once a      *)
(* Payment has one of them, no ConfirmIntent call and no webhook event     *)
(* changes its status.  No handler looks at the current status.            *)
(***************************************************************************)
C8_TerminalStatusesStay ==
    [][\A p \in payments :
          p.status \in TerminalStatuses =>
              \A q \in payments' : q.intent = p.intent => q.status = p.status]_vars

(***************************************************************************)
(* C9 as stated: under ConfirmIntent calls and webhook events an Order's   *)
(* status only moves from Pending/Placed to Cleared or to Cancelled; a     *)
(* Cleared Order is never moved to Cancelled, a Cancelled Order never to   *)
(* Cleared.                                                                *)
(***************************************************************************)
C9_OrderStatusForwardOnly ==
    [][\A o \in orders : \A n \in orders' :
          (n.id = o.id /\ n.status # o.status) =>
              /\ o.status \in {"Pending", "Placed"}
              /\ n.status \in {"Cleared", "Cancelled"}]_vars

(***************************************************************************)
(* Coupon Engine (src/cart/models.py Coupon, src/cart/views.py CouponView).*)
(* Dates are day numbers; NoDate is the NULL that expiry_date allows       *)
(* (null=True, blank=True).                                                *)
(***************************************************************************)
MaxDay == 2
MaxUses == 2
NumCodes == 1
MaxDiscount == 1

NoDate == 0 - 1

NoCode == 0

Codes == 1..NumCodes

CouponRows ==
    [code : Codes, active : BOOLEAN, expiry_date : {NoDate} \cup 0..MaxDay,
     usage_limit : 0..MaxUses, used_count : 0..MaxUses,
     amount : 0..MaxDiscount, percentage : 0..MaxDiscount]

NoTerms == [amount |-> 0, percentage |-> 0]

UsedUp_never(c) == FALSE

\* self.used_count >= self.usage_limit
UsedUp(c) == c.used_count >= c.usage_limit

\* Coupon.is_valid: what the call returns, or the exception it raises.
\* "None < date" raises TypeError.
IsValid(c, day) ==
    IF c.expiry_date = NoDate THEN "TypeError"
    ELSE IF c.expiry_date < day THEN "False"
    ELSE IF UsedUp(c) THEN "False"
    ELSE "True"

UsedCount_twice(n) == n + 2

\* self.used_count += 1
UsedCount(n) == n + 1

\* CouponView.get: Coupon.objects.filter(code=code).first(), then apply_coupon
CouponGet(code) ==
    LET found == {c \in coupons : c.code = code}
        r == [op |-> "Coupon", code |-> code, found |-> found]
    IN  IF code = NoCode
        THEN \* the view returns no Response
             /\ UNCHANGED <<coupons, tally>>
             /\ Respond(r @@ [resp |-> 500, valid |-> "None", status |-> "Error",
                              terms |-> NoTerms])
        ELSE IF found = {}
        THEN /\ UNCHANGED <<coupons, tally>>
             /\ Respond(r @@ [resp |-> 400, valid |-> "None", status |-> "Failed",
                              terms |-> NoTerms])
        ELSE LET c == CHOOSE x \in found : TRUE
                 v == IsValid(c, today)
             IN  IF v = "True"
                 THEN /\ c.used_count < MaxUses
                      /\ coupons' = (coupons \ {c}) \cup
                                    {[c EXCEPT !.used_count = UsedCount(@)]}
                      /\ tally' = [tally EXCEPT !.successes = @ + 1]
                      /\ Respond(r @@ [resp |-> 200, valid |-> v, status |-> "Success",
                                       terms |-> [amount |-> c.amount,
                                                  percentage |-> c.percentage]])
                 ELSE /\ UNCHANGED <<coupons, tally>>
                      /\ Respond(r @@ [resp |-> IF v = "False" THEN 200 ELSE 500,
                                       valid |-> v,
                                       status |-> IF v = "False" THEN "Failed" ELSE "Error",
                                       terms |-> NoTerms])

\* the coupons the admin site can have stored
InitCoupon ==
    /\ cart = {}
    /\ orders = {}
    /\ orderItems = {}
    /\ deliveries = {}
    /\ payments = {}
    /\ \E c \in CouponRows :
           /\ coupons = {c}
           /\ tally = [start |-> c.used_count, successes |-> 0]
    /\ today \in 0..MaxDay
    /\ webhookSecret = TRUE
    /\ productPrice = DefaultPrices
    /\ emailTasks = 0
    /\ applying = NoApply
    /\ last = None

DoCouponGet ==
    \E code \in NoCode..(NumCodes + 1) :
        /\ CouponGet(code)
        /\ UNCHANGED <<cart, orders, orderItems, deliveries, payments, today, webhookSecret,
                       productPrice, emailTasks, applying>>

NextCoupon == DoCouponGet

SpecCoupon == InitCoupon /\ [][NextCoupon]_vars

(***************************************************************************)
(* C5 as stated: for every coupon, validation returns Invalid whenever     *)
(* used_count >= usage_limit, whatever its expiry date, and whenever       *)
(* expiry_date < today, whatever its usage count; a coupon that is neither *)
(* used up nor expired is Valid.  A coupon without expiry date raises      *)
(* TypeError instead.                                                      *)
(***************************************************************************)
C5_Expired(c) == c.expiry_date # NoDate /\ c.expiry_date < today

C5_ValidationRule ==
    (last.op = "Coupon" /\ last.found # {}) =>
        \A c \in last.found :
            /\ c.used_count >= c.usage_limit => last.valid = "False"
            /\ C5_Expired(c) => last.valid = "False"
            /\ (c.used_count < c.usage_limit /\ ~C5_Expired(c)) => last.valid = "True"

(***************************************************************************)
(* Product prices (src/shop/models.py Product.price) and the script that   *)
(* changes them (src/update_laptop_prices.py), next to order creation.     *)
(***************************************************************************)
ProductPrices == 0..MaxPrice

\* int(new_price_input): a negative price is refused, any other is saved
UpdatePrice(p, new) ==
    LET r == [op |-> "UpdatePrice", pid |-> p, price |-> new]
    IN  IF new < 0
        THEN UNCHANGED productPrice /\ Respond(r @@ [updated |-> FALSE])
        ELSE /\ productPrice' = [productPrice EXCEPT ![p] = new]
             /\ Respond(r @@ [updated |-> TRUE])

InitPrice ==
    /\ cart \in {c \in InitCarts : Cardinality(c) <= 1}
    /\ orders = {}
    /\ orderItems = {}
    /\ deliveries = {}
    /\ payments = {}
    /\ coupons = {}
    /\ today = 0
    /\ webhookSecret = TRUE
    /\ productPrice \in [Products -> ProductPrices]
    /\ emailTasks = 0
    /\ applying = NoApply
    /\ tally = NoTally
    /\ last = None

DoUpdatePrice ==
    \E p \in Products, new \in (0 - NegQty)..MaxPrice :
        /\ UpdatePrice(p, new)
        /\ UNCHANGED <<cart, orders, orderItems, deliveries, payments, coupons, today,
                       webhookSecret, emailTasks, applying, tally>>

NextPrice == DoCheckout \/ DoOrderPost \/ DoUpdatePrice

SpecPrice == InitPrice /\ [][NextPrice]_vars

\* the prices that can apply to product p when an order is created: the
\* price of a cart line of p, or the live Product.price
AppliedPrices(p) == {productPrice[p]} \cup {c.price : c \in {l \in cart : l.product = p}}

(***************************************************************************)
(* C11 as stated: every OrderItem is created with the price that applied   *)
(* to its product at that moment (the price of a cart line of the product  *)
(* or the Product's price), on every creation path, and no later operation *)
(* (a change of the Product's price included) changes the item of an order *)
(* that still exists.  No creation path passes a price.                    *)
(***************************************************************************)
C11_PriceCapturedAtCreation ==
    [][/\ \A x \in orderItems' \ orderItems : x.price \in AppliedPrices(x.product)
       /\ \A x \in orderItems :
             (\E o \in orders' : o.id = x.order) => x \in orderItems']_vars

(***************************************************************************)
(* C12 as stated: a coupon is valid if and only if it is active, not       *)
(* expired and used_count < usage_limit; applying a coupon whose active    *)
(* flag is false never succeeds and never increments used_count.  (Checked *)
(* on coupons that have an expiry date.)  is_valid never reads the flag.   *)
(***************************************************************************)
C12_InactiveNeverValid ==
    (last.op = "Coupon" /\ last.found # {}) =>
        \A c \in last.found :
            c.expiry_date # NoDate =>
                /\ last.valid = "True" <=>
                      (c.active /\ ~C5_Expired(c) /\ c.used_count < c.usage_limit)
                /\ ~c.active => (last.status # "Success" /\ c \in coupons)

(***************************************************************************)
(* C13: Apply(code).  When validation returns Valid, used_count increases  *)
(* by exactly 1, nothing else of the coupon changes, and the answer is a   *)
(* success carrying the coupon's amount and percentage; when validation    *)
(* does not return Valid, a failure is answered and the coupon is          *)
(* unchanged; when no coupon has the code, the call fails (400, the        *)
(* "not found" answer of the view) and no coupon is changed.               *)
(***************************************************************************)
C13_Applied == last.op = "Coupon" /\ last.code # NoCode

SignedEventFor(type) ==
    /\ last.op = "Webhook"
    /\ last.secret
    /\ last.signed
    /\ last.type = type
    /\ PaymentsOf(Tables, last.intent) # {}

(***************************************************************************)
(* C14 as stated: the webhook event payment_intent.succeeded leaves what   *)
(* ConfirmIntent with processor status 'succeeded' leaves when started in  *)
(* the same state: the same Payment.status, linked Order.status and linked *)
(* Delivery.payment_status.  An event object without 'charges' breaks it.  *)
(***************************************************************************)
C14_WebhookCascadesAsConfirm ==
    [][(/\ last'.op = "Webhook"
        /\ last'.secret
        /\ last'.signed
        /\ last'.type = "payment_intent.succeeded"
        /\ PaymentsOf(Tables, last'.intent) # {}) =>
           LET i == last'.intent
               p == PaymentOf(i)
               c == SetPaymentStatus(CascadeSucceeded(Tables, p), i,
                                     ConfirmStatus(p.status, "succeeded"))
           IN  /\ payments' = c.payments
               /\ orders' = c.orders
               /\ deliveries' = c.deliveries]_vars

(***************************************************************************)
(* C15: a validly signed webhook event payment_intent.payment_failed for   *)
(* an intent with a local Payment row sets that Payment's status to        *)
(* 'failed' and the linked Order's status (if any) to 'Cancelled'; every   *)
(* Delivery and all other Payments and Orders are unchanged.               *)
(***************************************************************************)
C15_FailedEventCancelsOrder ==
    [][(/\ last'.op = "Webhook"
        /\ last'.secret
        /\ last'.signed
        /\ last'.type = "payment_intent.payment_failed"
        /\ PaymentsOf(Tables, last'.intent) # {}) =>
           LET i == last'.intent
               p == PaymentOf(i)
           IN  /\ payments' = {IF x.intent = i THEN [x EXCEPT !.status = "failed"] ELSE x :
                                  x \in payments}
               /\ orders' = {IF p.order # Null /\ x.id = p.order
                             THEN [x EXCEPT !.status = "Cancelled"] ELSE x : x \in orders}
               /\ deliveries' = deliveries]_vars

\* the failed intent is linked to an order and a delivery; another Payment exists
C15_Witness ==
    /\ SignedEventFor("payment_intent.payment_failed")
    /\ PaymentOf(last.intent).status = "failed"
    /\ PaymentOf(last.intent).order # Null
    /\ PaymentOf(last.intent).delivery # Null
    /\ OrderStatus(PaymentOf(last.intent).order) = "Cancelled"
    /\ DeliveryStatus(PaymentOf(last.intent).delivery) = "Pending"
    /\ \E x \in payments : x.intent # last.intent /\ x.status = "pending"

(***************************************************************************)
(* C16: the status table of ConfirmIntent.                                 *)
(***************************************************************************)
C16_Table(cur, pstatus) ==
    IF pstatus = "succeeded" THEN "succeeded"
    ELSE IF pstatus = "processing" THEN "pending"
    ELSE IF pstatus = "requires_payment_method" THEN "failed"
    ELSE IF pstatus = "canceled" THEN "cancelled"
    ELSE cur

\* an answered ConfirmIntent (200) has mapped the status by the table and
\* has left every other Payment alone
C16_Mapped ==
    (last'.op = "Confirm" /\ last'.resp = 200) =>
        /\ PaymentsOf(Tables, last'.intent) # {}
        /\ payments' = {IF x.intent = last'.intent
                        THEN [x EXCEPT !.status = C16_Table(x.status, last'.pstatus)]
                        ELSE x : x \in payments}

C16_NothingChanged ==
    /\ payments' = payments
    /\ orders' = orders
    /\ deliveries' = deliveries

\* C16 as stated: ConfirmIntent maps the processor's status by the table
\* (any other status leaves Payment.status unchanged), and whenever no local
\* Payment row has the intent_id a well-formed call fails with NotFound (404)
\* and changes no Payment, Order or Delivery.  An intent id that the
\* processor does not know either is answered 400.
C16_ConfirmMapsStatus ==
    [][/\ C16_Mapped
       /\ (last'.op = "Confirm" /\ last'.valid /\ PaymentsOf(Tables, last'.intent) = {}) =>
             (last'.resp = 404 /\ C16_NothingChanged)]_vars

\* C16 amended: ConfirmIntent maps the processor's status by the table (any
\* other status leaves Payment.status unchanged); a well-formed call for an
\* intent the processor knows but no local Payment row has fails with
\* NotFound (404); a call for an intent the processor does not know fails
\* with 400 before the local lookup; both change no Payment, Order or
\* Delivery.
C16_ConfirmMapsStatus_KnownIntent ==
    [][/\ C16_Mapped
       /\ (/\ last'.op = "Confirm" /\ last'.valid
           /\ PaymentsOf(Tables, last'.intent) = {}
           /\ IntentKnown(last'.intent)) =>
             (last'.resp = 404 /\ C16_NothingChanged)
       /\ (last'.op = "Confirm" /\ last'.valid /\ ~IntentKnown(last'.intent)) =>
             (last'.resp = 400 /\ C16_NothingChanged)]_vars

\* a failed Payment confirmed while the processor says 'processing' is pending
\* again, next to a Payment that stays succeeded
C16_Witness ==
    /\ last.op = "Confirm"
    /\ last.resp = 200
    /\ last.pstatus = "processing"
    /\ PaymentOf(last.intent).status = "pending"
    /\ \E x \in payments : x.intent # last.intent /\ x.status = "succeeded"

(***************************************************************************)
(* C17: a successful CreateIntent adds exactly one Payment row, in status  *)
(* 'pending', carrying the intent id and client secret of the processor;   *)
(* the row is linked to the Order / Delivery named by order_id /           *)
(* delivery_id when that id resolves; an id that does not resolve leaves   *)
(* the row unlinked and the call still succeeds.                           *)
(***************************************************************************)
C17_Created == last.op = "CreateIntent" /\ last.resp = 201

C17_CreateIntentAddsPendingRow ==
    [][/\ C17_Created' =>
             LET i == last'.intent
                 new == payments' \ payments
             IN  /\ payments \subseteq payments'
                 /\ PaymentsOf(Tables, i) = {}
                 /\ Cardinality(new) = 1
                 /\ \A x \in new :
                       /\ x.intent = i
                       /\ x.secret = ClientSecret(i)
                       /\ x.status = "pending"
                       /\ x.order = (IF last'.oid \in OrderIds THEN last'.oid ELSE Null)
                       /\ x.delivery = (IF last'.did \in DeliveryIds THEN last'.did ELSE Null)
                 /\ orders' = orders
                 /\ deliveries' = deliveries
       /\ (/\ last'.op = "CreateIntent" /\ last'.valid /\ last'.created
           /\ last'.oid \notin OrderIds
           /\ last'.did \notin DeliveryIds) => last'.resp = 201]_vars

\* order_id names no Order, delivery_id names a Delivery
C17_Witness ==
    /\ C17_Created
    /\ last.oid # Null
    /\ last.oid \notin OrderIds
    /\ last.did \in DeliveryIds
    /\ PaymentOf(last.intent).order = Null
    /\ PaymentOf(last.intent).delivery = last.did
    /\ PaymentOf(last.intent).status = "pending"

(***************************************************************************)
(* C20 as stated: for an intent whose outcome at the processor is fixed,   *)
(* ConfirmIntent and the corresponding webhook event end in the same       *)
(* Payment.status, linked Order.status and linked Delivery.payment_status, *)
(* whichever of the two runs: a ConfirmIntent that sees 'succeeded' leaves *)
(* what the payment_intent.succeeded event leaves, one that sees the       *)
(* failed intent ('requires_payment_method') leaves what the               *)
(* payment_intent.payment_failed event leaves.  Only the event cancels     *)
(* the Order.                                                              *)
(***************************************************************************)
C20_ConfirmAndWebhookConverge ==
    [][(/\ last'.op = "Confirm"
        /\ last'.resp = 200
        /\ last'.pstatus \in {"succeeded", "requires_payment_method"}) =>
           LET i == last'.intent
               w == IF last'.pstatus = "succeeded"
                    THEN HandlePaymentSucceeded(Tables, i, TRUE)
                    ELSE HandlePaymentFailed(Tables, i)
           IN  /\ payments' = w.payments
               /\ orders' = w.orders
               /\ deliveries' = w.deliveries]_vars

(***************************************************************************)
(* Delivery capture (src/cart/views.py DeliveryView.post), next to         *)
(* checkout, which attaches the delivery in the request that creates the   *)
(* order.                                                                  *)
(***************************************************************************)
AttachedStatus_kept(old) == old

\* order.status = "Placed"
AttachedStatus(old) == "Placed"

\* DeliveryView.post.  oid: data["order"]; form: the required fields present;
\* ps: the payment_status of the body
DeliveryPost(oid, form, ps) ==
    LET r == [op |-> "DeliveryPost", oid |-> oid, form |-> form,
              was |-> IF oid \in OrderIds THEN StatusOfOrder(Tables, oid) ELSE "None"]
    IN  \* the call of send_order_email.delay is commented out (line 286)
        /\ UNCHANGED <<cart, orderItems, payments, emailTasks, applying, tally>>
        /\ IF oid \notin OrderIds
           THEN UNCHANGED <<orders, deliveries>> /\ Respond(r @@ [resp |-> 404])
           ELSE IF ~DeliveryValid(form)
           THEN UNCHANGED <<orders, deliveries>> /\ Respond(r @@ [resp |-> 400])
           ELSE IF \E d \in deliveries : d.order = oid
           THEN \* Delivery.order is a OneToOneField: the insert fails
                UNCHANGED <<orders, deliveries>> /\ Respond(r @@ [resp |-> 500])
           ELSE /\ deliveries' = deliveries \cup
                       {[id |-> NewDeliveryId, order |-> oid, payment_status |-> ps]}
                /\ orders' = SetOrderStatus(Tables, oid,
                                 AttachedStatus(StatusOfOrder(Tables, oid))).orders
                /\ Respond(r @@ [resp |-> 200])

\* an order in any stored status, with or without its delivery
InitDelivery ==
    /\ cart = {}
    /\ orderItems = {}
    /\ \E n \in 0..MaxOrders, st \in STATUS_CHOICES \cup {"Placed"}, has \in BOOLEAN :
         /\ orders = {[id |-> k, user |-> Null, status |-> st] : k \in 1..n}
         /\ deliveries = IF has
                         THEN {[id |-> k, order |-> k, payment_status |-> "Pending"] :
                                  k \in 1..n}
                         ELSE {}
    /\ payments = {}
    /\ coupons = {}
    /\ today = 0
    /\ webhookSecret = TRUE
    /\ productPrice = DefaultPrices
    /\ emailTasks = 0
    /\ applying = NoApply
    /\ tally = NoTally
    /\ last = None

DoDeliveryPost ==
    \E oid \in 1..(MaxOrders + 1), form \in DeliveryForms, ps \in {"Pending", "Null"} :
        /\ DeliveryPost(oid, form, ps)
        /\ UNCHANGED <<coupons, today, webhookSecret, productPrice>>

NextDelivery == DoDeliveryPost \/ DoCheckout

SpecDelivery == InitDelivery /\ [][NextDelivery]_vars

(***************************************************************************)
(* C18: whenever delivery data is attached to an existing Order (answer    *)
(* 200 of the delivery call, with phone number and shipping address        *)
(* present; or a successful checkout), the Order's status is 'Placed'      *)
(* afterwards and the Order has its Delivery; a delivery call that names   *)
(* no existing Order fails with NotFound (404) and creates no Delivery.    *)
(***************************************************************************)
C18_Attached == last.op = "DeliveryPost" /\ last.resp = 200

C18_DeliveryAttachPlacesOrder ==
    [][/\ C18_Attached' =>
             /\ last'.oid \in OrderIds
             /\ DeliveryValid(last'.form)
             /\ \E o \in orders' : o.id = last'.oid /\ o.status = "Placed"
             /\ deliveries \subseteq deliveries'
             /\ Cardinality(deliveries' \ deliveries) = 1
             /\ \A d \in deliveries' \ deliveries : d.order = last'.oid
       /\ (last'.op = "Checkout" /\ last'.resp = 201) =>
             /\ \E o \in orders' : o.id = last'.order /\ o.status = "Placed"
             /\ \E d \in deliveries' \ deliveries : d.order = last'.order
       /\ (last'.op = "DeliveryPost" /\ last'.oid \notin OrderIds) =>
             /\ last'.resp = 404
             /\ deliveries' = deliveries
             /\ orders' = orders]_vars

\* the delivery is attached to an order that was Dispatched
C18_Witness ==
    /\ C18_Attached
    /\ last.was = "Dispatched"
    /\ OrderStatus(last.oid) = "Placed"
    /\ \E d \in deliveries : d.order = last.oid

(***************************************************************************)
(* C19 as stated: each successful delivery-info capture enqueues exactly   *)
(* one order-notification email task.  The enqueueing call is commented    *)
(* out: none is enqueued.                                                  *)
(***************************************************************************)
C19_OneEmailPerCapture ==
    [][C18_Attached' => emailTasks' = emailTasks + 1]_vars

(***************************************************************************)
(* The webhook without a configured secret.                                *)
(***************************************************************************)
C21_NothingChanged ==
    /\ payments' = payments
    /\ orders' = orders
    /\ deliveries' = deliveries

\* with a secret configured, an event that does not verify is rejected (400)
\* and changes no state
C21_UnverifiedRejected ==
    (last'.op = "Webhook" /\ last'.secret /\ ~last'.signed) =>
        (last'.resp = 400 /\ C21_NothingChanged)

\* C21 as stated: when no webhook secret is configured, the webhook answers
\* success and handles the event as it would a verified one (a
\* payment_intent.succeeded event marks the Payment succeeded and cascades);
\* when a secret is configured, an event that does not verify is rejected and
\* changes no state.  The view returns before it handles anything.
C21_UnconfiguredHandlesEvent ==
    [][/\ (last'.op = "Webhook" /\ ~last'.secret) =>
             LET h == HandleEvent(Tables, last'.type, last'.intent, last'.charges)
             IN  /\ last'.resp = 200
                 /\ payments' = h.payments
                 /\ orders' = h.orders
                 /\ deliveries' = h.deliveries
       /\ C21_UnverifiedRejected]_vars

\* C21 amended: when no webhook secret is configured, the webhook does not
\* reject the event: it logs a warning and answers success (200), but it does
\* not handle the event: no Payment, Order or Delivery changes, whatever the
\* event.  When a secret is configured, an event whose signature or payload
\* does not verify is rejected (400) and changes no state.
C21_UnconfiguredAcceptsAndIgnores ==
    [][/\ (last'.op = "Webhook" /\ ~last'.secret) =>
             (last'.resp = 200 /\ C21_NothingChanged)
       /\ C21_UnverifiedRejected]_vars

\* a payment_intent.succeeded event for a pending Payment linked to an order,
\* answered 200 without a secret: the Payment is still pending
C21_Witness ==
    /\ last.op = "Webhook"
    /\ ~last.secret
    /\ last.type = "payment_intent.succeeded"
    /\ last.charges
    /\ last.resp = 200
    /\ PaymentsOf(Tables, last.intent) # {}
    /\ PaymentOf(last.intent).status = "pending"
    /\ PaymentOf(last.intent).order # Null
    /\ OrderStatus(PaymentOf(last.intent).order) # "Cleared"

(***************************************************************************)
(* Checkout, delivery capture and CreateIntent side by side.               *)
(***************************************************************************)
NextLinks == DoCheckout \/ DoDeliveryPost \/ DoCreateIntent

SpecLinks == InitDelivery /\ [][NextLinks]_vars

DeliveriesOfOrder(o) == {d \in deliveries : d.order = o}

PaymentsOfOrder(o) == {x \in payments : x.order = o}

(***************************************************************************)
(* C22: in every reachable state each Order has at most one Delivery and   *)
(* at most one Payment, whatever checkout, delivery-attachment and         *)
(* CreateIntent calls were made (repeated ones for the same order          *)
(* included).                                                              *)
(***************************************************************************)
C22_AtMostOneDeliveryAndPayment ==
    \A o \in orders :
        /\ Cardinality(DeliveriesOfOrder(o.id)) <= 1
        /\ Cardinality(PaymentsOfOrder(o.id)) <= 1

\* a second CreateIntent for an order that has its Payment and its Delivery
C22_Witness ==
    /\ last.op = "CreateIntent"
    /\ last.valid
    /\ last.created
    /\ last.oid \in OrderIds
    /\ Cardinality(payments) = 2
    /\ Cardinality(PaymentsOfOrder(last.oid)) = 1
    /\ Cardinality(DeliveriesOfOrder(last.oid)) = 1

(***************************************************************************)
(* C30 as stated: a CreateIntent call that answers with an error          *)
(* (validation failure, processor error, failure while linking and         *)
(* saving) leaves the set of Payment rows as it was.  The row stored by    *)
(* Payment.objects.create outlives a failing payment.save().               *)
(***************************************************************************)
C30_FailedCreateLeavesNoRow ==
    [][(last'.op = "CreateIntent" /\ last'.resp # 201) => payments' = payments]_vars

(***************************************************************************)
(* Admin status Update (src/cart/views.py OrderDetailAPIView.patch), next  *)
(* to order creation, checkout and delivery capture.                       *)
(***************************************************************************)
\* the enumeration the specification gives for Order.status
OrderStatuses == STATUS_CHOICES \cup {"Placed"}

\* a status outside the enumeration that fits the column (max_length=10),
\* and one that does not
ShortStatus == "Shipped"
LongStatus == "OutForDelivery"

PatchStatuses == OrderStatuses \cup {ShortStatus, LongStatus}

\* status = models.CharField(max_length=10, ...): the column refuses longer values
FitsColumn(st) == st # LongStatus

\* OrderDetailAPIView.patch.  oid: the order_id of the URL; given: the body
\* has a 'status'; st: its value
OrderPatch(oid, given, st) ==
    LET r == [op |-> "OrderPatch", oid |-> oid, given |-> given, status |-> st,
              was |-> IF oid \in OrderIds THEN StatusOfOrder(Tables, oid) ELSE "None"]
    IN  /\ UNCHANGED <<cart, orderItems, deliveries, payments>>
        /\ IF oid \notin OrderIds
           THEN UNCHANGED orders /\ Respond(r @@ [resp |-> 404])
           ELSE IF ~given
           THEN UNCHANGED orders /\ Respond(r @@ [resp |-> 200])
           ELSE IF ~FitsColumn(st)
           THEN UNCHANGED orders /\ Respond(r @@ [resp |-> 400])
           ELSE /\ orders' = SetOrderStatus(Tables, oid, st).orders
                /\ Respond(r @@ [resp |-> 200])

DoOrderPatch ==
    \E oid \in 1..(MaxOrders + 1), given \in BOOLEAN, st \in PatchStatuses :
        /\ OrderPatch(oid, given, st)
        /\ UNCHANGED <<coupons, today, webhookSecret, productPrice, emailTasks, applying, tally>>

NextStatus == DoOrderPatch \/ DoOrderPost \/ DoCheckout \/ DoDeliveryPost

SpecStatus == InitDelivery /\ [][NextStatus]_vars

(***************************************************************************)
(* C23 as stated: in every reachable state each Order's status is one of   *)
(* Pending, Placed, Dispatched, Cancelled, Cleared; within the enumeration *)
(* Update sets any status to any other; Update of a non-existent order     *)
(* fails with NotFound.  Update stores any value that fits the column.     *)
(***************************************************************************)
C23_StatusInEnumeration ==
    /\ \A o \in orders : o.status \in OrderStatuses
    /\ (last.op = "OrderPatch" /\ last.resp = 404) => last.was = "None"
    /\ (last.op = "OrderPatch" /\ last.was = "None") => last.resp = 404
    /\ (/\ last.op = "OrderPatch" /\ last.was \in OrderStatuses
        /\ last.given /\ last.status \in OrderStatuses) =>
           (last.resp = 200 /\ OrderStatus(last.oid) = last.status)

(***************************************************************************)
(* Cart Merge (src/cart/views.py MergeCartView.post), next to the other    *)
(* operations of the Cart Manager.                                         *)
(***************************************************************************)
MergeItems ==
    [pid : Products, qty : ReqQtys \ {0}, price : {MaxPrice}]
        \cup [pid : {NoPid, UnknownPid}, qty : {1}, price : {MaxPrice}]

MergeLists == UNION {[1..n -> MergeItems] : n \in 0..MaxItems}

MergedQuantity_overwrite(old, q) == q

\* cart_item.quantity += quantity
MergedQuantity(old, q) == old + q

\* the loop of MergeCartView.post over the items, from item k on; every
\* write is committed when it is made
RECURSIVE MergeLoop(_, _, _, _)
MergeLoop(u, items, k, crt) ==
    IF k > Len(items)
    THEN [outcome |-> "ok", cart |-> crt]
    ELSE LET it == items[k]
             lines == {c \in crt : c.user = u /\ c.product = it.pid}
         IN  IF it.pid = NoPid \/ ~ProductExists(it.pid)
             THEN MergeLoop(u, items, k + 1, crt)
             ELSE IF lines = {}
             THEN IF PositiveIntegerField(it.qty) /\ PositiveIntegerField(it.price)
                  THEN MergeLoop(u, items, k + 1,
                           crt \cup {[user |-> u, product |-> it.pid,
                                      quantity |-> it.qty, price |-> it.price]})
                  ELSE [outcome |-> "IntegrityError", cart |-> crt]
             ELSE LET c == CHOOSE x \in lines : TRUE
                      n == MergedQuantity(c.quantity, it.qty)
                  IN  IF PositiveIntegerField(n)
                      THEN MergeLoop(u, items, k + 1,
                               (crt \ {c}) \cup {[c EXCEPT !.quantity = n]})
                      ELSE [outcome |-> "IntegrityError", cart |-> crt]

\* MergeCartView.post
MergeCart(u, items) ==
    LET r == [op |-> "Merge", user |-> u, items |-> items]
    IN  IF items = <<>>
        THEN UNCHANGED cart /\ Respond(r @@ [resp |-> 400])
        ELSE LET loop == MergeLoop(u, items, 1, cart)
             IN  /\ Cardinality(loop.cart) <= MaxCartRows
                 /\ \A c \in loop.cart : c.quantity <= MaxLineQty
                 /\ cart' = loop.cart
                 /\ Respond(r @@ [resp |-> IF loop.outcome = "ok" THEN 200 ELSE 500])

DoMergeCart ==
    \E u \in Users, items \in MergeLists :
        MergeCart(u, items) /\ UNCHANGED rest_cart

NextMerge == DoMergeCart \/ DoCartDelete

SpecMerge == Init /\ [][NextMerge]_vars

\* the quantities of the items from item k on that name product p
RECURSIVE NamedQuantity(_, _, _)
NamedQuantity(items, p, k) ==
    IF k > Len(items) THEN 0
    ELSE (IF items[k].pid = p THEN items[k].qty ELSE 0)
             + NamedQuantity(items, p, k + 1)

LineOf(crt, u, p) == {c \in crt : c.user = u /\ c.product = p}

\* every resolvable item of the request carries a quantity of at least one
C24_Plain(items) ==
    \A k \in 1..Len(items) : ProductExists(items[k].pid) => items[k].qty >= 1

\* C24: a Merge answered 200 leaves, for every product that an item of the
\* request names, exactly one line of the user whose quantity is the line's
\* earlier quantity (nothing when it was absent) plus the quantities of the
\* items naming it, the price being the earlier line's or else the item's;
\* products that no item names and the lines of other users are untouched;
\* items whose product_id is missing or does not resolve never make the
\* call fail: a non-empty request whose resolvable items all carry a
\* quantity of at least one is answered 200; and no (user, product) pair
\* has two lines.
C24_MergeAddsPerItem ==
    [][ last'.op = "Merge" =>
          LET u == last'.user
              items == last'.items
          IN  /\ (items # <<>> /\ C24_Plain(items)) => last'.resp = 200
              /\ \A v \in Users, p \in Products :
                     Cardinality(LineOf(cart', v, p)) <= 1
              /\ \A c \in cart : c.user # u => c \in cart'
              /\ \A c \in cart' : c.user # u => c \in cart
              /\ last'.resp = 200 =>
                   \A p \in Products :
                       LET named == \E k \in 1..Len(items) : items[k].pid = p
                           old == LineOf(cart, u, p)
                           new == LineOf(cart', u, p)
                       IN  IF ~named THEN new = old
                           ELSE /\ Cardinality(new) = 1
                                /\ \A n \in new :
                                     IF old = {}
                                     THEN /\ n.quantity = NamedQuantity(items, p, 1)
                                          /\ n.price = MaxPrice
                                     ELSE \A o \in old :
                                            /\ n.quantity = o.quantity
                                                   + NamedQuantity(items, p, 1)
                                            /\ n.price = o.price
    ]_vars

\* a merge of an unresolvable item and of one unit of product 1 was answered
\* 200 and the user's line for product 1, present before, now holds three
C24_Witness ==
    /\ last.op = "Merge"
    /\ last.resp = 200
    /\ Len(last.items) = 2
    /\ last.items[1].pid = UnknownPid
    /\ last.items[2].pid = 1
    /\ last.items[2].qty = 1
    /\ \E c \in cart : c.user = last.user /\ c.product = 1 /\ c.quantity = 3

\* C27: every cart line has a quantity of at least one
C27_QuantityAtLeastOne ==
    \A c \in cart : c.quantity >= 1

(***************************************************************************)
(* Coupon Apply with requests in progress at once (src/cart/views.py       *)
(* CouponView.get, src/cart/models.py Coupon.apply_coupon).  A request     *)
(* first loads the Coupon row into an instance of its own, then validates  *)
(* that instance and saves it; no lock and no transaction is held between  *)
(* the SELECT and the UPDATE, so the steps of two requests interleave.     *)
(***************************************************************************)
SavedCount_atomic(read, stored) == UsedCount(stored)

\* self.used_count += 1; self.save(): the UPDATE writes the instance's value
SavedCount(read, stored) == UsedCount(read)

\* coupon = Coupon.objects.filter(code=code).first()
ApplyLoad(p, code) ==
    LET found == {c \in coupons : c.code = code}
    IN  /\ applying[p].pc = "idle"
        /\ found # {}
        /\ applying' = [applying EXCEPT
                           ![p] = [pc |-> "loaded",
                                   coupon |-> CHOOSE x \in found : TRUE]]
        /\ UNCHANGED <<coupons, tally, last>>

\* coupon.apply_coupon(request.user) and the Response
ApplySave(p) ==
    /\ applying[p].pc = "loaded"
    /\ LET c == applying[p].coupon
           v == IsValid(c, today)
           rows == {x \in coupons : x.code = c.code}
           r == [op |-> "Apply", proc |-> p, code |-> c.code,
                 read |-> c.used_count, valid |-> v]
       IN  IF v = "True"
           THEN /\ coupons' = (coupons \ rows) \cup
                      {[c EXCEPT !.used_count =
                            SavedCount(c.used_count, x.used_count)] : x \in rows}
                /\ tally' = [tally EXCEPT !.successes = @ + 1]
                /\ Respond(r @@ [resp |-> 200, status |-> "Success"])
           ELSE /\ UNCHANGED <<coupons, tally>>
                /\ Respond(r @@ [resp |-> IF v = "False" THEN 200 ELSE 500,
                                 status |-> IF v = "False" THEN "Failed" ELSE "Error"])
    /\ applying' = [applying EXCEPT ![p] = [pc |-> "idle"]]

rest_race == <<cart, orders, orderItems, deliveries, payments, today, webhookSecret,
               productPrice, emailTasks>>

DoApplyLoad ==
    \E p \in Procs, code \in Codes : ApplyLoad(p, code) /\ UNCHANGED rest_race

DoApplySave ==
    \E p \in Procs : ApplySave(p) /\ UNCHANGED rest_race

NextRace == DoApplyLoad \/ DoApplySave

SpecRace == InitCoupon /\ [][NextRace]_vars

\* C25: a successful Apply validates and increments the used_count that the
\* request read when it loaded the coupon, whatever the row holds by then:
\* the row afterwards holds the value read plus one, and the value read was
\* below usage_limit.
C25_UnlockedIncrement ==
    [][ (/\ last'.op = "Apply"
         /\ last'.status = "Success"
         /\ applying[last'.proc].pc = "loaded"
         /\ applying'[last'.proc].pc = "idle") =>
          \A c \in coupons' : c.code = last'.code =>
              /\ c.used_count = last'.read + 1
              /\ last'.read < c.usage_limit
    ]_vars

\* two Apply calls succeeded although one usage remained, and used_count
\* went up by one only
C25_Witness ==
    /\ tally.successes = 2
    /\ \E c \in coupons :
           /\ c.usage_limit - tally.start = 1
           /\ c.used_count = tally.start + 1

\* C26: with Apply calls handled one at a time, a coupon that starts with
\* used_count <= usage_limit keeps used_count <= usage_limit, and the number
\* of successful Apply calls stays within usage_limit - initial used_count
C26_SequentialWithinLimit ==
    \A c \in coupons :
        tally.start <= c.usage_limit =>
            /\ c.used_count <= c.usage_limit
            /\ tally.successes <= c.usage_limit - tally.start

\* the coupon's last usage has been taken and a further Apply was refused
C26_Witness ==
    /\ last.op = "Coupon"
    /\ last.status = "Failed"
    /\ last.valid = "False"
    /\ tally.successes >= 1
    /\ \E c \in coupons :
           /\ tally.successes = c.usage_limit - tally.start
           /\ c.used_count = c.usage_limit
           /\ c.expiry_date # NoDate
           /\ c.expiry_date >= today

(***************************************************************************)
(* Claims about the cart lines that OrderAPIView.post converts (Path A).   *)
(***************************************************************************)
\* C28: an order creation from cart-line references deletes cart lines of
\* the requester only (none at all for an anonymous caller), and the lines
\* it converts are the requester's
C28_OnlyOwnLinesConverted ==
    [][ (last'.op = "OrderPost" /\ last'.path = "carts") =>
          /\ \A c \in cart \ cart' : c.user = last'.user
          /\ \A c \in last'.lines :
                 (\E i \in orderItems' \ orderItems : i.product = c.product)
                     => c.user = last'.user
    ]_vars

\* the cart lines that the last Path A request referenced and that are gone
C29_Gone == last.lines \ cart

\* C29: after an order creation from cart-line references, each referenced
\* line is still in the cart or has an OrderItem of its own in the new
\* order, with its product and quantity
C29_NoCartContentLost ==
    (last.op = "OrderPost" /\ last.path = "carts") =>
        /\ \A c \in C29_Gone :
               \E i \in orderItems : /\ i.order = last.order
                                     /\ i.product = c.product
                                     /\ i.quantity = c.quantity
        /\ \A c, d \in C29_Gone : c # d => c.product # d.product

====
